---- MODULE Spec2Model ----
(***************************************************************************)
(* Model of parse-fix-msg.py: FIXParser renders FIX tag=value messages     *)
(* against a data dictionary.  Text is a sequence of one-character         *)
(* strings; an optional value (Python None or an object) is a sequence of  *)
(* length 0 or 1; an XML element is [tag, attrib, children].               *)
(***************************************************************************)
EXTENDS Integers, Sequences, FiniteSets, TLC

\* ---------------------------------------------------------------- bounds
MaxLines == 2
MaxTokens == 2

\* ------------------------------------------------------ class constants
tag_column_length == 5
field_name_column_length == 23
trailing_column_length == 65
msg_separator_length == 100

\* ------------------------------------------------------------- text
None == << >>
Some(x) == << x >>

SOH == "SOH"
NL == "\n"
Quote == "'"
Whitespace == {" ", NL}

Repeat(c, n) == IF n > 0 THEN [i \in 1..n |-> c] ELSE << >>

HasChar(s, c) == \E i \in 1..Len(s) : s[i] = c

FirstIndex(s, c) ==
    LET hits == { i \in 1..Len(s) : s[i] = c }
    IN  IF hits = {} THEN 0 ELSE CHOOSE i \in hits : \A j \in hits : i <= j

RECURSIVE split(_, _)
split(s, sep) ==
    LET i == FirstIndex(s, sep)
    IN  IF i = 0 THEN << s >> ELSE << SubSeq(s, 1, i - 1) >> \o split(SubSeq(s, i + 1, Len(s)), sep)

RECURSIVE lstrip(_)
lstrip(s) == IF Len(s) > 0 /\ s[1] \in Whitespace THEN lstrip(Tail(s)) ELSE s

RECURSIVE rstrip(_)
rstrip(s) == IF Len(s) > 0 /\ s[Len(s)] \in Whitespace THEN rstrip(SubSeq(s, 1, Len(s) - 1)) ELSE s

strip(s) == rstrip(lstrip(s))

RECURSIVE Join(_, _)
Join(parts, sep) == IF Len(parts) = 0 THEN << >> ELSE IF Len(parts) = 1 THEN parts[1] ELSE parts[1] \o << sep >> \o Join(Tail(parts), sep)

\* ------------------------------------------------------ XML elements
Element(t, a, c) == [tag |-> t, attrib |-> a, children |-> c]

HasAttr(e, key) == key \in DOMAIN e.attrib

Matches(e, t, key, v) == e.tag = t /\ HasAttr(e, key) /\ e.attrib[key] = v

\* Element.find("./t[@key='v']"): the first matching child, or None.
\* exc: the predicate is rejected ("invalid predicate") when v holds a quote.
find_attr(e, t, key, v) ==
    LET hits == { i \in 1..Len(e.children) : Matches(e.children[i], t, key, v) }
    IN  IF HasChar(v, Quote) THEN [exc |-> TRUE, val |-> None]
        ELSE IF hits = {} THEN [exc |-> FALSE, val |-> None]
        ELSE [exc |-> FALSE, val |-> Some(e.children[CHOOSE i \in hits : \A j \in hits : i <= j])]

\* Element.find("./t"): the first child with that tag, or None.
find_tag(e, t) ==
    LET hits == { i \in 1..Len(e.children) : e.children[i].tag = t }
    IN  IF hits = {} THEN None ELSE Some(e.children[CHOOSE i \in hits : \A j \in hits : i <= j])

\* ------------------------------------------------ dictionary documents
ValueElem(code, desc) == Element("value", [enum |-> code, description |-> desc], << >>)

ValueNoDescription(code) == Element("value", [enum |-> code], << >>)

FieldElem(number, name, values) == Element("field", [number |-> number, name |-> name], values)

SideField == FieldElem(<<"1">>, <<"S", "i", "d", "e">>, << ValueElem(<<"1">>, <<"B", "U", "Y">>), ValueElem(<<"2">>, <<"S", "E", "L", "L">>) >>)

SymbolField == FieldElem(<<"2">>, <<"S", "y", "m", "b", "o", "l">>, << >>)

UrgencyField == FieldElem(<<"3">>, <<"U", "r", "g", "e", "n", "c", "y">>, << ValueNoDescription(<<"1">>) >>)

FieldsSection == Element("fields", << >>, << SideField, SymbolField, UrgencyField >>)

HeaderSection == Element("header", << >>, << >>)

GoodDocument == [parsable |-> TRUE, root |-> Element("fix", << >>, << HeaderSection, FieldsSection >>)]

NoFieldsDocument == [parsable |-> TRUE, root |-> Element("fix", << >>, << HeaderSection >>)]

UnparsableDocument == [parsable |-> FALSE, root |-> Element("", << >>, << >>)]

Documents == {GoodDocument, NoFieldsDocument, UnparsableDocument}

\* ------------------------------------------------------------ inputs
\* tokens of a message line: tag 1 (enumerated) with two '=' and a value that
\* is no enum code, tag 9 (not in the dictionary), a token without '='
Tokens == { <<"1", "=", "9", "=", "1">>, <<"9", "=", "1">>, <<"1">> }

TokenSeqs == UNION { [1..n -> Tokens] : n \in 1..MaxTokens }

\* blank and comment lines; a padded line of the free-form tag 2; tag 3, whose
\* enum entry has no description, then tag 2; two enum codes of tag 1; a
\* value holding a quote, then tag 2
SpecialLines == { <<NL>>, <<" ", NL>>, <<"#", NL>>, <<" ", "#", "1", "=", "1", NL>>, <<" ", "2", "=", "1", " ", NL>>, <<"3", "=", "1", SOH, "2", "=", "1", NL>>, <<"1", "=", "1", SOH, "1", "=", "2", NL>>, <<"1", "=", "'", SOH, "2", "=", "1", NL>> }

Lines == { Join(ts, SOH) \o <<NL>> : ts \in TokenSeqs } \cup SpecialLines

EOF == << >>

\* file.readline() after n lines were read: a next line of the input file,
\* or "" at end of file
readline(n) == IF n < MaxLines THEN Lines \cup {EOF} ELSE {EOF}

\* ------------------------------------------------------------- state
\* hide_enums, row_lines   the flags of self.args
\* fields                  self.fields: None or the <fields> element
\* row_separator, msg_separator   None until built, then the text
\* pc                      where main stands
\* line                    the line the loop of parse_input_file examined last
\* output_state, output    the output file and the lines written to it
\* nread                   the lines read from the input file
\* prev_line, block_start  the line of the last iteration and the length of
\*                         the output before it (history)
\* enum_str_called         get_enum_str has been called (history)
\* error_printed           make_readable has printed an exception (history)
\* nmsg                    the message lines handled so far (history)
VARIABLES hide_enums, row_lines, fields, row_separator, msg_separator, pc, line, output_state, output, nread, prev_line, block_start, enum_str_called, error_printed, nmsg

vars == << hide_enums, row_lines, fields, row_separator, msg_separator, pc, line, output_state, output, nread, prev_line, block_start, enum_str_called, error_printed, nmsg >>

IsNone(x) == Len(x) = 0

\* ------------------------------------------------------ separators
row_separator_text == Repeat("-", tag_column_length) \o <<"-", "+", "-">> \o Repeat("-", field_name_column_length) \o <<"-", "+", "-">> \o Repeat("-", trailing_column_length) \o <<NL>>

\* one period short
msg_separator_short == Repeat(".", msg_separator_length - 1) \o <<NL>>

msg_separator_text == Repeat(".", msg_separator_length) \o <<NL>>

\* ------------------------------------------------------ init_fields
RECURSIVE last_fields_child(_, _, _)
last_fields_child(cur, children, i) == IF i > Len(children) THEN cur ELSE last_fields_child(IF children[i].tag = "fields" THEN Some(children[i]) ELSE cur, children, i + 1)

init_fields(cur, doc) == IF ~doc.parsable THEN cur ELSE last_fields_child(cur, doc.root.children, 1)

\* ----------------------------------------------------- get_enum_str
NoMatchingEnum == <<" ", "(", "E", "R", "R", "O", "R", ":", " ", "N", "O", " ", "M", "A", "T", "C", "H", "I", "N", "G", " ", "E", "N", "U", "M", ".", " ", "C", "H", "E", "C", "K", " ", "D", "I", "C", "T", "I", "O", "N", "A", "R", "Y", ")">>

Raised == [exc |-> TRUE, str |-> << >>]

Returned(s) == [exc |-> FALSE, str |-> s]

enum_meaning(field, tag_value) ==
    LET meaning == find_attr(field, "value", "enum", tag_value)
    IN  IF meaning.exc THEN Raised
        ELSE IF IsNone(meaning.val) THEN Returned(NoMatchingEnum)
        ELSE IF ~HasAttr(meaning.val[1], "description") THEN Raised
        ELSE Returned(<<" ", "(">> \o meaning.val[1].attrib.description \o <<")">>)

enum_annotation(field, tag_value) == IF IsNone(find_tag(field, "value")) THEN Returned(<< >>) ELSE enum_meaning(field, tag_value)

RECURSIVE enum_listing(_, _)
enum_listing(children, i) ==
    IF i > Len(children) THEN Returned(<< >>)
    ELSE IF ~HasAttr(children[i], "enum") \/ ~HasAttr(children[i], "description") THEN Raised
    ELSE LET rest == enum_listing(children, i + 1)
         IN  IF rest.exc THEN Raised
             ELSE Returned(children[i].attrib.enum \o <<" ", ":", " ">> \o children[i].attrib.description \o <<",", " ">> \o rest.str)

enum_padding(enums) == Repeat(" ", trailing_column_length - Len(enums))

enum_str_of_field(field, tag_value) ==
    LET enums == enum_annotation(field, tag_value)
        listing == enum_listing(field.children, 1)
    IN  IF enums.exc THEN None
        ELSE IF Len(field.children) = 0 THEN Some(enums.str)
        ELSE IF listing.exc THEN None
        ELSE Some(enums.str \o enum_padding(enums.str) \o listing.str)

\* returns Some(text), or None when an exception was caught and printed
get_enum_str(flds, tag_number, tag_value) ==
    IF IsNone(flds) THEN None
    ELSE LET field == find_attr(flds[1], "field", "number", tag_number)
         IN  IF field.exc \/ IsNone(field.val) THEN None
             ELSE enum_str_of_field(field.val[1], tag_value)

\* ---------------------------------------------------- make_readable
padding(width, s) == Repeat(" ", width - Len(s))

\* the value taken as everything after the first '='
tag_value_rest(pair) == Join(Tail(pair), "=")

tag_value_of(pair) == pair[2]

\* get_enum_str called whatever hide_enums is
field_enums_unhidden(flds, hide, tag_number, tag_value) == [called |-> TRUE, enums |-> get_enum_str(flds, tag_number, tag_value)]

\* enums = "" unless hide_enums is off, then the result of get_enum_str;
\* called: whether get_enum_str was called
field_enums(flds, hide, tag_number, tag_value) == IF ~hide THEN [called |-> TRUE, enums |-> get_enum_str(flds, tag_number, tag_value)] ELSE [called |-> FALSE, enums |-> Some(<< >>)]

field_line(tag_number, tag_name, tag_value, enums) == tag_number \o padding(tag_column_length, tag_number) \o <<" ", "|", " ">> \o tag_name \o padding(field_name_column_length, tag_name) \o <<" ", "|", " ">> \o tag_value \o enums \o <<NL>>

\* no row separator ahead of the first field line
leading_rule_missing(rowl, rowsep) == << >>

leading_rule(rowl, rowsep) == IF rowl THEN << rowsep >> ELSE << >>

trailing_rule(rowl, rowsep) == IF rowl THEN << rowsep >> ELSE << >>

Stopped(called) == [writes |-> << >>, exc |-> TRUE, called |-> called]

\* the field definition of a tag: Some(field), or None when the lookup of
\* its name raises (no dictionary, rejected predicate, no such field, no name)
named_field(flds, tag_number) ==
    IF IsNone(flds) THEN None
    ELSE LET field == find_attr(flds[1], "field", "number", tag_number)
         IN  IF field.exc THEN None
             ELSE IF IsNone(field.val) THEN None
             ELSE IF ~HasAttr(field.val[1], "name") THEN None
             ELSE field.val

\* the loop over the tags from index i on: what is written, whether an
\* exception ended it, whether get_enum_str was called
RECURSIVE tag_loop(_, _, _, _, _, _)
tag_loop(flds, hide, rowl, rowsep, tags, i) ==
    IF i > Len(tags) THEN [writes |-> << >>, exc |-> FALSE, called |-> FALSE]
    ELSE LET pair == split(tags[i], "=")
             tag_number == pair[1]
             field == named_field(flds, tag_number)
             tag_value == tag_value_of(pair)
             e == field_enums(flds, hide, tag_number, tag_value)
             rest == tag_loop(flds, hide, rowl, rowsep, tags, i + 1)
         IN  IF Len(pair) = 1 THEN rest
             ELSE IF IsNone(field) THEN Stopped(FALSE)
             ELSE IF IsNone(e.enums) THEN Stopped(e.called)
             ELSE [writes |-> << field_line(tag_number, field[1].attrib.name, tag_value, e.enums[1]) >> \o trailing_rule(rowl, rowsep) \o rest.writes,
                   exc |-> rest.exc,
                   called |-> e.called \/ rest.called]

make_readable_body(flds, hide, rowl, rowsep, tags) ==
    LET loop == tag_loop(flds, hide, rowl, rowsep, tags, 1)
    IN  [writes |-> leading_rule(rowl, rowsep) \o loop.writes, exc |-> loop.exc, called |-> loop.called]

\* make_readable without its try/except: the exception reaches the caller
make_readable_reraises(flds, hide, rowl, rowsep, tags) ==
    LET body == make_readable_body(flds, hide, rowl, rowsep, tags)
    IN  [writes |-> body.writes, raised |-> body.exc, printed |-> FALSE, called |-> body.called]

\* try/except of make_readable: an exception is printed, never re-raised
make_readable(flds, hide, rowl, rowsep, tags) ==
    LET body == make_readable_body(flds, hide, rowl, rowsep, tags)
    IN  [writes |-> body.writes, raised |-> FALSE, printed |-> body.exc, called |-> body.called]

\* ------------------------------------------------- parse_input_file
\* the test without its comment branch
is_skipped_blank_only(stripped) == stripped = << >>

is_skipped(stripped) == IF stripped = << >> THEN TRUE ELSE stripped[1] = "#"

Rendered(l) == make_readable(fields, hide_enums, row_lines, row_separator[1], split(strip(l), SOH))

\* an input line that is blank, or whose first non-blank character is '#'
BlankOrComment(l) ==
    LET inked == { i \in 1..Len(l) : l[i] \notin {" ", NL} }
    IN  IF inked = {} THEN TRUE ELSE l[CHOOSE i \in inked : \A j \in inked : i <= j] = "#"

\* ------------------------------------------------------------ actions
Init == /\ hide_enums \in BOOLEAN
        /\ row_lines \in BOOLEAN
        /\ fields = None
        /\ row_separator = None
        /\ msg_separator = None
        /\ pc = "build_row_separator"
        /\ line = EOF
        /\ output_state = "unopened"
        /\ output = << >>
        /\ nread = 0
        /\ prev_line = EOF
        /\ block_start = 0
        /\ enum_str_called = FALSE
        /\ error_printed = FALSE
        /\ nmsg = 0

BuildRowSeparator == /\ pc = "build_row_separator"
                     /\ row_separator' = Some(row_separator_text)
                     /\ pc' = "build_msg_separator"
                     /\ UNCHANGED << hide_enums, row_lines, fields, msg_separator, line, output_state, output, nread, prev_line, block_start, enum_str_called, error_printed, nmsg >>

BuildMsgSeparator == /\ pc = "build_msg_separator"
                     /\ msg_separator' = Some(msg_separator_text)
                     /\ pc' = "init_fields"
                     /\ UNCHANGED << hide_enums, row_lines, fields, row_separator, line, output_state, output, nread, prev_line, block_start, enum_str_called, error_printed, nmsg >>

InitFields == /\ pc = "init_fields"
              /\ \E doc \in Documents : fields' = init_fields(fields, doc)
              /\ pc' = "parse_input_file"
              /\ UNCHANGED << hide_enums, row_lines, row_separator, msg_separator, line, output_state, output, nread, prev_line, block_start, enum_str_called, error_printed, nmsg >>

\* open the input, fetch the first line, open (truncate) the output.  The
\* content of a line fetched by readline is drawn when the loop examines it.
ParseOpen == /\ pc = "parse_input_file"
             /\ output_state' = "open"
             /\ output' = << >>
             /\ pc' = "loop"
             /\ UNCHANGED << hide_enums, row_lines, fields, row_separator, msg_separator, line, nread, prev_line, block_start, enum_str_called, error_printed, nmsg >>

\* one iteration on a blank or comment line
ParseSkip ==
    /\ pc = "loop"
    /\ \E l \in readline(nread) :
          /\ l # EOF
          /\ is_skipped(strip(l))
          /\ line' = l
          /\ prev_line' = l
          /\ nmsg' = IF BlankOrComment(l) THEN nmsg ELSE nmsg + 1
    /\ nread' = nread + 1
    /\ block_start' = Len(output)
    /\ UNCHANGED << hide_enums, row_lines, fields, row_separator, msg_separator, pc, output_state, output, enum_str_called, error_printed >>

\* one iteration on a message line; an exception that left make_readable
\* would end the run in the handler of parse_input_file
ParseRender ==
    /\ pc = "loop"
    /\ \E l \in readline(nread) :
          /\ l # EOF
          /\ ~is_skipped(strip(l))
          /\ line' = l
          /\ prev_line' = l
          /\ nmsg' = IF BlankOrComment(l) THEN nmsg ELSE nmsg + 1
          /\ LET r == Rendered(l)
             IN  /\ output' = IF r.raised THEN output \o r.writes ELSE output \o r.writes \o << msg_separator[1] >>
                 /\ enum_str_called' = (enum_str_called \/ r.called)
                 /\ error_printed' = (error_printed \/ r.printed)
                 /\ pc' = IF r.raised THEN "crashed" ELSE "loop"
    /\ nread' = nread + 1
    /\ block_start' = Len(output)
    /\ UNCHANGED << hide_enums, row_lines, fields, row_separator, msg_separator, output_state >>

\* readline gave "": the loop ends and the output is closed
ParseClose == /\ pc = "loop"
              /\ EOF \in readline(nread)
              /\ line' = EOF
              /\ output_state' = "closed"
              /\ pc' = "done"
              /\ UNCHANGED << hide_enums, row_lines, fields, row_separator, msg_separator, output, nread, prev_line, block_start, enum_str_called, error_printed, nmsg >>

Next == \/ BuildRowSeparator
        \/ BuildMsgSeparator
        \/ InitFields
        \/ ParseOpen
        \/ ParseSkip
        \/ ParseRender
        \/ ParseClose

Spec == Init /\ [][Next]_vars

\* ------------------------------------------- vocabulary of the claims
\* a row-separator line: 5, 23 and 65 dashes joined by "-+-"
RuleLine == [i \in 1..100 |-> IF i = 100 THEN NL ELSE IF i \in {7, 33} THEN "+" ELSE "-"]

\* a message-separator line: 100 periods
DotLine == [i \in 1..101 |-> IF i = 101 THEN NL ELSE "."]

IsFieldLine(w) == w # RuleLine /\ w # DotLine

IsDotLine(w) == w = DotLine

FieldLines(block) == SelectSeq(block, IsFieldLine)

CountDots(block) == Len(SelectSeq(block, IsDotLine))

\* what the last loop iteration wrote
LastBlock == SubSeq(output, block_start + 1, Len(output))

\* the last loop iteration was on a message line
MessageDone == prev_line # EOF /\ ~BlankOrComment(prev_line)

Loaded == ~IsNone(fields)

TokensOf(l) == split(strip(l), SOH)

IsPair(tok) == HasChar(tok, "=")

PairsOf(l) == SelectSeq(TokensOf(l), IsPair)

TagOf(tok) == SubSeq(tok, 1, FirstIndex(tok, "=") - 1)

RestOf(tok) == SubSeq(tok, FirstIndex(tok, "=") + 1, Len(tok))

ValueOf(tok) == IF HasChar(RestOf(tok), "=") THEN SubSeq(RestOf(tok), 1, FirstIndex(RestOf(tok), "=") - 1) ELSE RestOf(tok)

DictFields == { fields[1].children[i] : i \in 1..Len(fields[1].children) }

KnownTag(tok) == \E f \in DictFields : f.attrib.number = TagOf(tok)

FieldOf(tok) == CHOOSE f \in DictFields : f.attrib.number = TagOf(tok)

WellFormed(f) == \A i \in 1..Len(f.children) : HasAttr(f.children[i], "enum") /\ HasAttr(f.children[i], "description")

\* the field lines a token gives when it is the only token of its line
SoloLines(tok) == make_readable(fields, hide_enums, FALSE, RuleLine, << tok >>).writes

RECURSIVE ConcatSolo(_)
ConcatSolo(toks) == IF Len(toks) = 0 THEN << >> ELSE SoloLines(Head(toks)) \o ConcatSolo(Tail(toks))

\* the block a message line gives when it is the only line of the input
SoloBlock(l) == make_readable(fields, hide_enums, row_lines, RuleLine, TokensOf(l)).writes \o << DotLine >>

StartsWith(w, prefix) == Len(w) >= Len(prefix) /\ SubSeq(w, 1, Len(prefix)) = prefix

TagColumn(tok) == TagOf(tok) \o Repeat(" ", 5 - Len(TagOf(tok))) \o <<" ", "|", " ">>

\* ---------------------------------------------------------------- C1
\* C1: on a line with a token whose tag is not in the dictionary, only that
\* token is skipped: every token whose tag is in the dictionary, also one
\* after the unknown token, still gives its field line.
C1_UnknownTagSkipsOnlyItself ==
    LET pairs == PairsOf(prev_line)
    IN  (/\ MessageDone
         /\ Loaded
         /\ \E i \in 1..Len(pairs) : ~KnownTag(pairs[i])
         /\ \A i \in 1..Len(pairs) : KnownTag(pairs[i]) => SoloLines(pairs[i]) # << >>)
        => FieldLines(LastBlock) = ConcatSolo(pairs)


\* ---------------------------------------------------------------- C2
\* C2: when the dictionary could not be loaded the run stops there: no
\* line of the input is read, the output is neither opened nor written.
C2_NoDictionaryNoInputOutput ==
    (IsNone(fields) /\ pc \in {"parse_input_file", "loop", "done", "crashed"})
    => (nread = 0 /\ output_state = "unopened" /\ output = << >>)

\* ---------------------------------------------------------------- C3
\* C3: a message line with k tag=value tokens gives exactly k field lines,
\* in the order of the tokens, then exactly one message-separator line.
C3_OneFieldLinePerPair ==
    LET pairs == PairsOf(prev_line)
        written == FieldLines(LastBlock)
    IN  (MessageDone /\ Loaded)
        => (/\ Len(written) = Len(pairs)
            /\ \A i \in 1..Len(pairs) : i <= Len(written) => StartsWith(written[i], TagColumn(pairs[i]))
            /\ Len(LastBlock) >= 1
            /\ LastBlock[Len(LastBlock)] = DotLine
            /\ CountDots(LastBlock) = 1)


\* ---------------------------------------------------------------- C4
\* C4: a line that is empty after trimming, or whose first non-blank
\* character is '#', writes nothing: the output after the line is the
\* output before it.
C4_CommentWritesNothing == [][(pc = "loop" /\ nread' = nread + 1 /\ BlankOrComment(line')) => output' = output]_vars

\* a comment line was passed over after a block had been written
C4_Witness == prev_line # EOF /\ BlankOrComment(prev_line) /\ Len(output) > 0 /\ block_start = Len(output)

\* ---------------------------------------------------------------- C5
ErrorMark == <<" ", "(", "E", "R", "R", "O", "R", ":", " ", "N", "O", " ", "M", "A", "T", "C", "H", "I", "N", "G", " ", "E", "N", "U", "M", ".", " ", "C", "H", "E", "C", "K", " ", "D", "I", "C", "T", "I", "O", "N", "A", "R", "Y", ")">>

ExpectedMark(f, v) ==
    LET hits == { i \in 1..Len(f.children) : f.children[i].attrib.enum = v }
    IN  IF hits = {} THEN ErrorMark ELSE <<" ", "(">> \o f.children[CHOOSE i \in hits : \A j \in hits : i <= j].attrib.description \o <<")">>

RECURSIVE ExpectedListing(_)
ExpectedListing(entries) == IF Len(entries) = 0 THEN << >> ELSE Head(entries).attrib.enum \o <<" ", ":", " ">> \o Head(entries).attrib.description \o <<",", " ">> \o ExpectedListing(Tail(entries))

ExpectedEnumStr(f, v) == IF Len(f.children) = 0 THEN << >> ELSE ExpectedMark(f, v) \o Repeat(" ", 65 - Len(ExpectedMark(f, v))) \o ExpectedListing(f.children)

\* C5: with hide_enums off, get_enum_str gives, for a field with enum
\* entries, " (description)" when the value is one of the codes and the
\* no-matching-enum marker otherwise, then spaces up to width 65, then
\* "code : description, " for every entry in order; for a field without
\* enum entries it gives the empty string.
C5_EnumStr ==
    LET pairs == PairsOf(prev_line)
    IN  (MessageDone /\ Loaded /\ ~hide_enums)
        => \A i \in 1..Len(pairs) :
              (KnownTag(pairs[i]) /\ WellFormed(FieldOf(pairs[i])))
              => get_enum_str(fields, TagOf(pairs[i]), ValueOf(pairs[i])) = Some(ExpectedEnumStr(FieldOf(pairs[i]), ValueOf(pairs[i])))


C7_RowLines ==
    MessageDone
    => (/\ Len(LastBlock) >= 1
        /\ LastBlock[Len(LastBlock)] = DotLine
        /\ row_lines => (/\ Len(LastBlock) % 2 = 0
                         /\ \A i \in 1..(Len(LastBlock) - 1) : IF i % 2 = 1 THEN LastBlock[i] = RuleLine ELSE IsFieldLine(LastBlock[i]))
        /\ ~row_lines => \A i \in 1..(Len(LastBlock) - 1) : IsFieldLine(LastBlock[i]))

\* with row_lines set, a block of two field lines was written
C7_Witness == row_lines /\ MessageDone /\ Len(FieldLines(LastBlock)) = 2 /\ Len(LastBlock) = 6

\* ---------------------------------------------------------------- C8
NoPair(l) == Len(PairsOf(l)) = 0

\* C8 as stated: a message line without a tag=value token gives exactly one
\* message-separator line and nothing else, whatever the flags.
C8_SeparatorOnly == (MessageDone /\ NoPair(prev_line)) => LastBlock = << DotLine >>

\* C8 as amended: such a line gives exactly one message-separator line of
\* 100 periods, preceded by exactly one row-separator line when row_lines is
\* set, and nothing else, whatever hide_enums is.
C8_SeparatorsOnly == (MessageDone /\ NoPair(prev_line)) => LastBlock = (IF row_lines THEN << RuleLine, DotLine >> ELSE << DotLine >>)

\* a message line without a tag=value token was handled with row_lines set
C8_Witness == MessageDone /\ NoPair(prev_line) /\ row_lines /\ Len(LastBlock) = 2

\* ---------------------------------------------------------------- C9
\* C9: with the dictionary loaded a failure within one line never stops the
\* run: every message line appends its own block, the block it gives alone,
\* ending with exactly one message separator, the loop goes on, and the
\* message separators written number the message lines handled.
C9_FailureStaysLocal ==
    [][(pc = "loop" /\ Loaded /\ nread' = nread + 1)
       => LET block == IF BlankOrComment(line') THEN << >> ELSE SoloBlock(line')
          IN  /\ pc' = "loop"
              /\ output' = output \o block
              /\ BlankOrComment(line') \/ CountDots(block) = 1
              /\ CountDots(output') = nmsg']_vars


\* the run ended after a line that rendered a field, a failure having been
\* reported on an earlier line
C9_Witness ==
    /\ pc = "done"
    /\ Loaded
    /\ error_printed
    /\ nmsg = 2
    /\ MessageDone
    /\ ~make_readable_body(fields, hide_enums, row_lines, RuleLine, TokensOf(prev_line)).exc
    /\ Len(FieldLines(LastBlock)) >= 1
    /\ CountDots(output) = 2

\* --------------------------------------------------------------- C10
\* C10: of a token with more than one '=' the text before the first '=' is
\* the tag and the text between the first and the second '=' is the value
\* rendered; what follows the second '=' appears nowhere in the field line.
C10_ValueStopsAtSecondEquals ==
    LET pairs == PairsOf(prev_line)
        written == FieldLines(LastBlock)
    IN  (MessageDone /\ Loaded)
        => \A i \in 1..Len(written) :
              /\ i <= Len(pairs)
              /\ written[i] = field_line(TagOf(pairs[i]), FieldOf(pairs[i]).attrib.name, ValueOf(pairs[i]), field_enums(fields, hide_enums, TagOf(pairs[i]), ValueOf(pairs[i])).enums[1])
              /\ HasChar(RestOf(pairs[i]), "=") => ~HasChar(written[i], "=")


\* a token with two '=' was rendered as a field line
C10_Witness ==
    /\ MessageDone
    /\ Loaded
    /\ Len(FieldLines(LastBlock)) >= 1
    /\ HasChar(RestOf(PairsOf(prev_line)[1]), "=")

====
